---- MODULE Spec2Model ----
(***************************************************************************)
(* Model of the Evony Active Generals Tracker collection run:              *)
(*   ApplicationController.collect_all_generals and its per-entity         *)
(*   collector, the GameNavigator filter bookkeeping and counter parsing,  *)
(*   the BluestacksInterface device adapter and the CollectionWorker that  *)
(*   drives a run from the UI thread.                                      *)
(*                                                                         *)
(* Confidences are rationals in [0,1] in the code; here they are integers  *)
(* in units of 1/One, with One chosen so that every division the code      *)
(* performs (by 3, 4 and 5) is exact on the confidence levels enumerated.  *)
(***************************************************************************)
EXTENDS Integers, Sequences, FiniteSets, TLC

(***************************************************************************)
(* Bounds of the model                                                     *)
(***************************************************************************)
\* largest entity count the counter region can show in a run
MaxGenerals == 2
\* number of environment failures (screenshot not captured, region not
\* legible, comparison failed, workbook not written) one run may suffer
MaxFaults == 1
\* longest OCR text of the counter region handed to the count parser
MaxLen == 4
\* longest OCR text handed to the number extraction
MaxNumLen == 6
\* most text fragments the OCR reader returns for one region
MaxFragments == 2

\* most images handed to one composition
MaxImages == 3

(***************************************************************************)
(* Program constants                                                       *)
(***************************************************************************)
\* OCR confidence 1.0
One == 120
\* config 'confidence_threshold' default 0.8, in units of 1/One
ConfidenceThreshold == 96
\* config 'postprocessed_confidence_threshold' default 0.4, in units of 1/One
PostprocessedThreshold == 48
\* the cap 0.3 of the threshold of character-enhanced regions
CharacterThreshold == 36
\* OCR confidences a legible fragment set may average to (0.5 and 1.0)
ConfLevels == {60, 120}
\* config 'navigation_retry_count' default
NavigationRetryCount == 3
\* marks a key that is not in the confidence_scores dict
Absent == 0 - 1

Filters == {"mode", "favorites", "idle"}

PresetOf == [mode |-> "GeneralsListMode", favorites |-> "GeneralsListFavorites", idle |-> "GeneralsListIdle"]

\* tap targets the run uses (names of presets in locations.xml)
Presets == {"ThreeDots", "Generals", "All", "GeneralsListMode", "GeneralsListFavorites", "GeneralsListIdle", "GeneralsFirstGeneral", "GeneralsListMoveRight", "Back", "GeneralsListCultivate", "GeneralsListSpecialty", "GeneralsListCovenant", "GeneralsListSpecialty1", "GeneralsListSpecialty2", "GeneralsListSpecialty3", "GeneralsListSpecialty4", "GeneralsListSpecialty5", "GeneralsListSpecialtyP1", "GeneralsListSpecialtyP2", "GeneralsListSpecialtyP3", "GeneralsListCovenantGeneral", "GeneralsListCovenantRight", "GeneralsListCovenantXOut"}

\* the coordinate table is loaded from a file outside the program; the model
\* lets it lack at most one of these presets, counted as an environment failure
MissingChoices == {{}} \cup {{p} : p \in {"Generals", "All", "GeneralsListMode", "GeneralsListFavorites", "GeneralsFirstGeneral", "GeneralsListMoveRight", "GeneralsListCultivate", "GeneralsListSpecialty", "GeneralsListSpecialty2", "GeneralsListCovenantGeneral"}}

ScoreKeys == {"name", "power", "exp_ratio", "cultivation", "specialty", "covenant"}

(***************************************************************************)
(* Small helpers                                                           *)
(***************************************************************************)
RECURSIVE SetSum(_, _)
SetSum(f, S) == IF S = {} THEN 0 ELSE LET x == CHOOSE y \in S : TRUE IN f[x] + SetSum(f, S \ {x})

Count(s, x) == Cardinality({k \in 1..Len(s) : s[k] = x})

(***************************************************************************)
(* GameNavigator: settings                                                 *)
(***************************************************************************)
\* GameNavigator.retry_count, read from config 'navigation_retry_count'
VARIABLE retry_count

(***************************************************************************)
(* GameNavigator: taps                                                     *)
(***************************************************************************)
\* _tap_preset: no coordinates -> False and nothing is sent; otherwise the
\* adapter's send_tap is called once, and send_tap reports True
TapOk(preset, miss) == preset \notin miss

\* faulty variant: the tap is sent once and then once more per configured retry
TapLogRetried(preset, miss) == IF TapOk(preset, miss) THEN [k \in 1..(1 + retry_count) |-> preset] ELSE <<>>

\* the device commands one _tap_preset call issues
TapLog(preset, miss) == IF TapOk(preset, miss) THEN <<preset>> ELSE <<>>

\* the emulator: a tap on a filter's toggle flips that filter
DeviceTap(f, name) == [f EXCEPT ![name] = ~f[name]]

\* _compare_with_reference_image: the reference images show the inactive
\* control; no coordinates or any failure inside the comparison -> False
CompareWithReference(name, shotFilt, miss, cmpFail) == /\ PresetOf[name] \notin miss
                                                        /\ name \notin cmpFail
                                                        /\ ~shotFilt[name]

NoFlags == [x \in Filters |-> FALSE]

\* faulty variant: the toggle is tapped but the run does not record that it changed it
SetOneFilterNoFlag(st, name, need, miss) ==
    IF ~st.go \/ ~need THEN st
    ELSE IF ~TapOk(PresetOf[name], miss) THEN [st EXCEPT !.go = FALSE]
    ELSE [st EXCEPT !.filt = DeviceTap(st.filt, name), !.log = Append(st.log, PresetOf[name])]

\* one "check and set" block of set_generals_list_state; st.go is false once
\* the function has returned False
SetOneFilter(st, name, need, miss) ==
    IF ~st.go \/ ~need THEN st
    ELSE IF ~TapOk(PresetOf[name], miss) THEN [st EXCEPT !.go = FALSE]
    ELSE [go |-> TRUE, flags |-> [st.flags EXCEPT ![name] = TRUE], filt |-> DeviceTap(st.filt, name), log |-> Append(st.log, PresetOf[name])]

\* set_generals_list_state(): result [go = return value, flags, filt = screen
\* afterwards, log = device commands issued]
SetGeneralsListState(f, miss, shotOk, cmpFail) ==
    LET st0 == [go |-> FALSE, flags |-> NoFlags, filt |-> f, log |-> <<>>]
    IN  IF ~TapOk("All", miss) THEN st0
        ELSE IF ~shotOk THEN [st0 EXCEPT !.log = <<"All", "screenshot">>]
        ELSE LET st1 == [st0 EXCEPT !.go = TRUE, !.log = <<"All", "screenshot">>]
                 st2 == SetOneFilter(st1, "mode", CompareWithReference("mode", f, miss, cmpFail), miss)
                 st3 == SetOneFilter(st2, "favorites", ~CompareWithReference("favorites", f, miss, cmpFail), miss)
                 st4 == SetOneFilter(st3, "idle", ~CompareWithReference("idle", f, miss, cmpFail), miss)
             IN  st4

\* faulty variant: the toggle is tapped whether or not the run changed it
ResetOneFilterAlways(st, name, miss) ==
    IF TapOk(PresetOf[name], miss)
    THEN [st EXCEPT !.filt = DeviceTap(st.filt, name), !.log = Append(st.log, PresetOf[name])]
    ELSE st

\* one 'if self.state_change_flags.get(...)' block of reset_generals_list_state
ResetOneFilter(st, name, miss) ==
    IF st.flags[name] /\ TapOk(PresetOf[name], miss)
    THEN [st EXCEPT !.filt = DeviceTap(st.filt, name), !.log = Append(st.log, PresetOf[name])]
    ELSE st

\* reset_generals_list_state(): taps the toggle of every flagged filter
ResetGeneralsListState(fl, f, miss) ==
    LET st0 == [flags |-> fl, filt |-> f, log |-> <<>>]
    IN  ResetOneFilter(ResetOneFilter(ResetOneFilter(st0, "mode", miss), "favorites", miss), "idle", miss)

(***************************************************************************)
(* Text: an OCR text is a sequence of one-character strings                *)
(***************************************************************************)
DigitChars == <<"0", "1", "2", "3", "4", "5", "6", "7", "8", "9">>

IsDigit(c) == \E d \in 1..10 : DigitChars[d] = c

DigitVal(c) == (CHOOSE d \in 1..10 : DigitChars[d] = c) - 1

\* characters the counter region's OCR text is drawn from
Alphabet == {"1", "7", "/", "a", " ", "-"}

Texts == UNION {[1..n -> Alphabet] : n \in 0..MaxLen}

\* str.strip(): surrounding whitespace removed
RECURSIVE LStrip(_)
LStrip(s) == IF s # <<>> /\ Head(s) = " " THEN LStrip(Tail(s)) ELSE s

RECURSIVE RStrip(_)
RStrip(s) == IF s # <<>> /\ s[Len(s)] = " " THEN RStrip(SubSeq(s, 1, Len(s) - 1)) ELSE s

Strip(s) == RStrip(LStrip(s))

HasSlash(s) == \E k \in 1..Len(s) : s[k] = "/"

\* str.split('/'): the parts between the separators, in order
RECURSIVE SplitSlash(_)
SplitSlash(s) ==
    IF ~HasSlash(s) THEN <<s>>
    ELSE LET k == CHOOSE j \in 1..Len(s) : s[j] = "/" /\ \A h \in 1..(j - 1) : s[h] # "/"
         IN  <<SubSeq(s, 1, k - 1)>> \o SplitSlash(SubSeq(s, k + 1, Len(s)))

\* int(s) succeeds: an optional sign, then one or more digits
IsIntLiteral(s) ==
    /\ s # <<>>
    /\ LET body == IF Head(s) = "-" THEN Tail(s) ELSE s
       IN  body # <<>> /\ \A k \in 1..Len(body) : IsDigit(body[k])

RECURSIVE DecimalValue(_)
DecimalValue(s) == IF s = <<>> THEN 0 ELSE 10 * DecimalValue(SubSeq(s, 1, Len(s) - 1)) + DigitVal(s[Len(s)])

\* int(s) for a text on which it succeeds
IntValue(s) == IF Head(s) = "-" THEN 0 - DecimalValue(Tail(s)) ELSE DecimalValue(s)

\* faulty variant: the total after the '/' is parsed as an integer too
ParseCurrentBothInts(count_text) ==
    LET parts == SplitSlash(count_text)
    IN  IF Len(parts) # 2 THEN [ok |-> FALSE, n |-> 0]
        ELSE IF ~IsIntLiteral(Strip(parts[1])) \/ ~IsIntLiteral(Strip(parts[2])) THEN [ok |-> FALSE, n |-> 0]
        ELSE [ok |-> TRUE, n |-> IntValue(Strip(parts[1]))]

\* the try block around 'current, total = count_text.split("/")' and
\* 'int(current.strip())': [ok = no ValueError, n = the value]
ParseCurrent(count_text) ==
    LET parts == SplitSlash(count_text)
    IN  IF Len(parts) # 2 THEN [ok |-> FALSE, n |-> 0]
        ELSE IF ~IsIntLiteral(Strip(parts[1])) THEN [ok |-> FALSE, n |-> 0]
        ELSE [ok |-> TRUE, n |-> IntValue(Strip(parts[1]))]

\* get_total_generals_count(): shotOk = the screenshot was captured,
\* res = extract_text's result for the counter region
GetTotalGeneralsCount(shotOk, res) ==
    IF ~shotOk THEN [n |-> 0, text |-> <<>>]
    ELSE IF ~res.some THEN [n |-> 0, text |-> <<>>]
    ELSE LET count_text == Strip(res.text)
             cur == ParseCurrent(count_text)
         IN  IF HasSlash(count_text) /\ cur.ok THEN [n |-> cur.n, text |-> count_text]
             ELSE [n |-> 0, text |-> count_text]

\* the counter text of a list of n entities
CounterText(n) == <<DigitChars[n + 1], "/", "9">>

\* counter texts a run may read: a count 0..MaxGenerals, or no count at all
RunCounterTexts == {CounterText(n) : n \in 0..MaxGenerals} \cup {<<"a">>, <<"-", "1", "/", "9">>}

\* the counter region was not read yet
NoOcr == [read |-> FALSE, shot |-> FALSE, some |-> FALSE, text |-> <<>>]

(***************************************************************************)
(* General: one entity record                                              *)
(***************************************************************************)
NoScores == [k \in ScoreKeys |-> Absent]

Groups == {"cultivation", "specialty", "covenant"}

NotVisited == [g \in Groups |-> "unvisited"]

\* General(): the dataclass defaults. History, not fields of the dataclass:
\* idx (the index the collector was asked for), openFailed, sub (how the
\* visit of each sub-screen went: unvisited, navfail, unavailable, noshot,
\* read, nodata, raised) and logStart, logEnd (the device log positions
\* between which the entity was collected)
NewGeneral(idx, at) == [idx |-> idx, name |-> "", power |-> "None", exp_ratio |-> "", cultivation_data |-> <<>>, specialty_names |-> <<>>, covenant_names |-> <<>>, covenant_data |-> "", is_purple_general |-> "unset", confidence_scores |-> NoScores, is_uncertain |-> FALSE, openFailed |-> FALSE, sub |-> NotVisited, logStart |-> at, logEnd |-> at]

\* faulty variant: the record of an entity that could not be opened is not flagged
FailedOpenNotFlagged(g) == [g EXCEPT !.openFailed = TRUE]

\* _collect_single_general when open_general_details returned False
FailedOpen(g) == [g EXCEPT !.is_uncertain = TRUE, !.openFailed = TRUE]

\* the except block of _collect_single_general
RaisedInEntity(g, group) == [g EXCEPT !.is_uncertain = TRUE, !.sub[group] = "raised"]

Visited(g, group, how) == [g EXCEPT !.sub[group] = how]

\* faulty variant: only a negative count is fatal
NoGeneralsFoundNegative(n) == n < 0

\* 'if self.total_generals <= 0: raise RuntimeError("No generals found")'
NoGeneralsFound(n) == n <= 0

NoGeneral == NewGeneral(0, 0)

PresentKeys(scores) == {k \in ScoreKeys : scores[k] # Absent}

\* General.get_average_confidence() < threshold, without the division:
\* an empty map averages 0.0
AverageBelow(scores, threshold) ==
    IF PresentKeys(scores) = {} THEN 0 < threshold
    ELSE SetSum(scores, PresentKeys(scores)) < threshold * Cardinality(PresentKeys(scores))

\* the average lies in [0, 1]
AverageInUnit(scores) ==
    \/ PresentKeys(scores) = {}
    \/ /\ 0 <= SetSum(scores, PresentKeys(scores))
       /\ SetSum(scores, PresentKeys(scores)) <= One * Cardinality(PresentKeys(scores))

\* what one slot's read can come to: all read, no screenshot after the tap,
\* the slot image not extracted, the slot name not legible
SlotOutcomes == {"ok", "noshot", "noimage", "notext"}

SlotFaults(o) == Cardinality({k \in DOMAIN o : o[k] # "ok"})

SpecialtyPresets(purple) ==
    IF purple THEN <<"GeneralsListSpecialtyP1", "GeneralsListSpecialtyP2", "GeneralsListSpecialtyP3">>
    ELSE <<"GeneralsListSpecialty1", "GeneralsListSpecialty2", "GeneralsListSpecialty3", "GeneralsListSpecialty4", "GeneralsListSpecialty5">>

\* device commands of the specialty slot loop: a tap per slot, and a
\* screenshot after every tap that was sent
RECURSIVE SpecialtyLog(_, _)
SpecialtyLog(presets, miss) ==
    IF presets = <<>> THEN <<>>
    ELSE (IF TapOk(Head(presets), miss) THEN <<Head(presets), "screenshot">> ELSE <<>>) \o SpecialtyLog(Tail(presets), miss)

\* the slots of _extract_specialty_data whose name was recorded
SpecialtyRead(presets, o, miss) == {k \in 1..Len(presets) : TapOk(presets[k], miss) /\ o[k] = "ok"}

\* _extract_specialty_data on a record whose variant flag is set
ExtractSpecialty(g, o, q, miss) ==
    LET presets == SpecialtyPresets(g.is_purple_general = "yes")
        read == SpecialtyRead(presets, o, miss)
    IN  [g EXCEPT !.sub["specialty"] = "read",
                  !.specialty_names = [k \in 1..Len(presets) |-> IF k \in read THEN "text" ELSE "Unknown Specialty"],
                  !.confidence_scores["specialty"] = (Cardinality(read) * q) \div Len(presets)]

\* number of covenant sub-screens the loop of _extract_covenant_data visits
CovenantSlots == 4

\* the divisor of the covenant group's confidence
CovenantDivisor == 3

\* first covenant slot whose image was extracted while extract_text returned
\* None: 'name_result.text' raises there; 0 when there is none
CovenantCrash(o) ==
    IF \E k \in 1..CovenantSlots : o[k] = "notext"
    THEN CHOOSE k \in 1..CovenantSlots : o[k] = "notext" /\ \A h \in 1..(k - 1) : o[h] # "notext"
    ELSE 0

\* device commands of the covenant loop up to slot n
RECURSIVE CovenantLog(_, _)
CovenantLog(n, miss) ==
    IF n = 0 THEN <<>>
    ELSE CovenantLog(n - 1, miss) \o (IF n > 1 THEN TapLog("GeneralsListCovenantRight", miss) ELSE <<>>) \o <<"screenshot">>

\* _extract_covenant_data when its loop runs to the end
ExtractCovenant(g, o, q) ==
    LET read == {k \in 1..CovenantSlots : o[k] = "ok"}
    IN  [g EXCEPT !.sub["covenant"] = "read",
                  !.covenant_names = [k \in 1..CovenantSlots |-> IF k \in read THEN "text" ELSE "Unknown Covenant"],
                  !.confidence_scores["covenant"] = (Cardinality(read) * q) \div CovenantDivisor]

\* _extract_cultivation_data: ill = the stats whose text was not legible
ExtractCultivation(g, purple, ill, q) ==
    [g EXCEPT !.sub["cultivation"] = "read",
              !.is_purple_general = IF purple THEN "yes" ELSE "no",
              !.cultivation_data = [k \in 1..4 |-> IF k \in ill THEN "Unknown" ELSE "text"],
              !.confidence_scores["cultivation"] = ((4 - Cardinality(ill)) * q) \div 4]

\* _extract_main_general_data: ill = the fields whose text was not legible
ExtractMain(g, ill, q) ==
    [g EXCEPT !.name = IF "name" \in ill THEN "" ELSE "text",
              !.power = IF "power" \in ill THEN "None" ELSE "value",
              !.exp_ratio = IF "exp_ratio" \in ill THEN "" ELSE "text",
              !.confidence_scores = [k \in ScoreKeys |-> IF k \in {"name", "power", "exp_ratio"} THEN (IF k \in ill THEN 0 ELSE q) ELSE Absent]]

\* the classification at the end of _collect_single_general
Classify(g) == [g EXCEPT !.is_uncertain = AverageBelow(g.confidence_scores, ConfidenceThreshold)]

(***************************************************************************)
(* State                                                                   *)
(***************************************************************************)
VARIABLES
    pc,             \* position of the worker inside collect_all_generals
    stopFlag,       \* CollectionWorker._stop_flag
    terminal,       \* the worker's terminal signal: none, finished, stopped, failed
    connected,      \* BluestacksInterface.connected
    missing,        \* presets the coordinate table lacks
    filt,           \* the emulator's three list filters: is each one active
    orig,           \* the filters as they stood before the run (history)
    flags,          \* GameNavigator.state_change_flags
    devlog,         \* device commands issued so far: taps (by preset) and screenshots
    setTaps,        \* toggle taps of this run's set_generals_list_state (history)
    resetTaps,      \* toggle taps of this run's reset_generals_list_state (history)
    resetCalled,    \* reset_generals_list_state ran in this run (history)
    faults,         \* environment failures so far
    ocrCount,       \* what the counter read got: screenshot, OCR result
    total_generals, \* ApplicationController.total_generals
    count_text,     \* ApplicationController.count_text
    excelOk,        \* the initial workbook was created (excel_path is set)
    i,              \* loop variable of the entity loop
    quality,        \* OCR confidence of the fields that are legible in this run
    general,        \* the record _collect_single_general is filling
    generals,       \* the run's list of records
    lastSnapshot,   \* 'generals_data' of the last progress event that reached the sink
    returned,       \* collect_all_generals returned its list
    raised,         \* the exception that ended the run inside CollectionWorker.run (history)
    percents,       \* 'percentage' of the progress events that reached the sink (history)
    stopReq,        \* where the run stood when the stop was requested (history)
    call,           \* the extraction or composition call under study: input and result
    events,         \* the progress events handed to progress_callback at entity boundaries (history)
    sheet,          \* the calls of append_general: row, record, outcome (history)
    signals,        \* what CollectionWorker's callback saw and the signals the worker emitted (history)
    run             \* the number of the collection run on this controller

vars == <<pc, stopFlag, terminal, connected, raised, missing, filt, orig, flags, devlog, setTaps, resetTaps, resetCalled, faults, ocrCount, total_generals, count_text, excelOk, i, quality, general, generals, lastSnapshot, returned, raised, percents, stopReq, call, retry_count, events, sheet, signals, run>>

\* everything but the worker's position and signals
env == <<missing, orig, quality, call, retry_count>>

nav == <<filt, flags, devlog, setTaps, resetTaps, resetCalled>>

count == <<ocrCount, total_generals, count_text, excelOk>>

loop == <<i, general, generals, lastSnapshot, events, sheet>>

FilterStates == [Filters -> BOOLEAN]

\* filter states a collection run starts from: every toggle needed, none
\* needed, and a mixed one (the pair harness below starts from all eight)
RunFilterStates == {[mode |-> FALSE, favorites |-> TRUE, idle |-> TRUE], [mode |-> TRUE, favorites |-> FALSE, idle |-> FALSE], [mode |-> TRUE, favorites |-> TRUE, idle |-> FALSE]}

RunPcs == {"navigate", "setstate", "count", "looptop", "open", "cult", "spec", "cov", "classify", "post", "cleanup", "final"}

\* no exception
NoException == [kind |-> "none", msg |-> ""]

\* raise KeyboardInterrupt("Collection stopped by user") in the worker's callback
StopRequested == [kind |-> "KeyboardInterrupt", msg |-> "Collection stopped by user"]

\* raise RuntimeError(msg) in collect_all_generals
RuntimeError(msg) == [kind |-> "RuntimeError", msg |-> msg]

\* collection_finished.emit(generals, None): the second argument is declared str
EmitTypeError == [kind |-> "TypeError", msg |-> "argument 2 has unexpected type 'NoneType'"]

\* the except clauses of CollectionWorker.run: the text error_occurred carries
WorkerMessage(exc) == IF exc.kind = "KeyboardInterrupt" THEN "Collection stopped by user" ELSE exc.msg

\* '"stopped by user" in error_msg.lower()', on the messages a run can raise
MentionsStop(msg) == msg \in {"Collection stopped by user"}

\* faulty variant: every error message is shown as a failure
ErrorStatusAlwaysFailed(msg) == "failed"

\* MainWindow._on_collection_error: the status shown for an error message
ErrorStatus(msg) == IF MentionsStop(msg) THEN "stopped" ELSE "failed"

\* the stop was not requested
NoStop == [asked |-> FALSE, pc |-> "", i |-> 0, at |-> 0]

\* no call under study
NoCall == [fn |-> "none"]

\* a progress event's percentage, as a fraction
Pct(n) == [n |-> n, d |-> 1]

\* faulty variant: the share of the entities still to do
LoopPercentageOfRemaining(k, N) == [n |-> 15 * N + (N - k) * 80, d |-> N]

\* 'percentage = 15 + (i + 1) / self.total_generals * 80' after the k-th of N
LoopPercentage(k, N) == [n |-> 15 * N + k * 80, d |-> N]

\* the state after the controller was constructed and connected
Init ==
    /\ pc = "idle"
    /\ stopFlag = FALSE
    /\ terminal = "none"
    /\ connected = TRUE
    /\ missing \in MissingChoices
    /\ filt \in RunFilterStates
    /\ orig = filt
    /\ flags = NoFlags
    /\ devlog = <<>>
    /\ setTaps = <<>>
    /\ resetTaps = <<>>
    /\ resetCalled = FALSE
    /\ faults = Cardinality(missing)
    /\ ocrCount = NoOcr
    /\ total_generals = 0
    /\ count_text = <<>>
    /\ excelOk = FALSE
    /\ i = 0
    /\ quality \in ConfLevels
    /\ general = NoGeneral
    /\ generals = <<>>
    /\ lastSnapshot = <<>>
    /\ returned = FALSE
    /\ raised = NoException
    /\ percents = <<>>
    /\ events = <<>>
    /\ sheet = <<>>
    /\ signals = <<>>
    /\ run = 1
    /\ stopReq = NoStop
    /\ call = NoCall
    /\ retry_count = NavigationRetryCount

(***************************************************************************)
(* CollectionWorker and the ends of a run                                  *)
(***************************************************************************)
\* MainWindow._on_stop_collection_clicked -> CollectionWorker.stop(), on the
\* UI thread, at any moment of a running collection
Stop ==
    /\ pc \in RunPcs
    /\ ~stopFlag
    /\ stopFlag' = TRUE
    /\ stopReq' = [asked |-> TRUE, pc |-> pc, i |-> i, at |-> Len(devlog)]
    /\ UNCHANGED <<pc, terminal, connected, raised, percents, signals, run, env, nav, faults, count, loop, returned>>

\* faulty variant: the adapter is left connected when an exception leaves the run
RaiseStillConnected(exc) ==
    /\ pc' = "ended"
    /\ raised' = exc
    /\ terminal' = ErrorStatus(WorkerMessage(exc))
    /\ UNCHANGED connected

\* an exception leaves collect_all_generals: the finally block disconnects,
\* CollectionWorker.run emits error_occurred and the window shows the status
Raise(exc) ==
    /\ pc' = "ended"
    /\ raised' = exc
    /\ terminal' = ErrorStatus(WorkerMessage(exc))
    /\ connected' = FALSE

\* faulty variant: the callback never looks at the stop flag
InterruptedNever == FALSE

\* progress_callback: raises when the stop flag is set
Interrupted == stopFlag

\* CollectionWorker.run's progress_callback on one call: it reads the stop
\* flag and either raises or emits progress_updated
Callback(flag) == IF flag THEN <<"stop_observed">> ELSE <<"progress_updated">>

\* faulty variant: the signal of a completed run is followed by the error signal
WorkerEndBoth(exc) == IF exc.kind = "KeyboardInterrupt" THEN <<"error_occurred">> ELSE <<"collection_finished", "error_occurred">>

\* CollectionWorker.run: the signal that ends the run; exc = what left the try block
WorkerEnd(exc) == IF exc = NoException THEN <<"collection_finished">> ELSE <<"error_occurred">>

\* faulty variant: the event carries the run's own list
CopyAlias(list) == [ref |-> "generals", value |-> <<>>]

\* 'generals.copy()': a new list holding the records collected so far
Copy(list) == [ref |-> "copy", value |-> list]

\* the records a delivered list shows when it is read
Contents(d) == IF d.ref = "generals" THEN generals ELSE d.value

\* the dictionary passed to _update_progress after the k-th entity
ProgressEvent(k, N, list) == [current_general |-> k, total_generals |-> N, generals_data |-> Copy(list)]

\* 'row_index = i + 7': the row of the first record
FirstDataRow == 7

\* _extract_specialty_data ran to its end and assigned general.specialty_names
SpecialtyNamesSet(g) == g.sub["specialty"] = "read"

\* _extract_covenant_data assigned general.covenant_names
CovenantNamesSet(g) == g.sub["covenant"] \in {"read", "nodata"}

ColumnGroups == {"main", "cultivation", "specialty", "covenant", "uncertain"}

\* populate_single_general: the column groups of the row that receive the
\* record's values before the method returns; General declares neither
\* specialty_names nor covenant_names, and the method's except clause
\* swallows the AttributeError of reading one that was never assigned
Populated(g) ==
    IF ~SpecialtyNamesSet(g) THEN {}
    ELSE IF ~CovenantNamesSet(g) THEN {"main", "cultivation", "specialty"}
    ELSE ColumnGroups

\* append_general(general, path, row_index): saved = the workbook was loaded
\* and saved, which is also the return value
AppendGeneral(g, row_index, saved, at) ==
    [idx |-> g.idx, row |-> row_index, ok |-> saved, at |-> at, cells |-> IF saved THEN Populated(g) ELSE {}]

\* collect_all_generals up to the first progress update
StartCollection ==
    /\ pc = "idle"
    /\ pc' = "navigate"
    /\ total_generals' = 0
    /\ count_text' = <<>>
    /\ UNCHANGED <<stopFlag, stopReq, percents, signals, run, terminal, connected, raised, env, nav, faults, ocrCount, excelOk, loop, returned>>

\* progress 5, then navigate_to_generals_list
NavigateToList ==
    /\ pc = "navigate"
    /\ IF Interrupted
       THEN Raise(StopRequested) /\ UNCHANGED <<devlog, percents>>
       ELSE /\ percents' = Append(percents, Pct(5))
            /\ devlog' = devlog \o TapLog("ThreeDots", missing) \o (IF TapOk("ThreeDots", missing) THEN TapLog("Generals", missing) ELSE <<>>)
            /\ IF TapOk("ThreeDots", missing) /\ TapOk("Generals", missing)
               THEN pc' = "setstate" /\ UNCHANGED <<terminal, connected, raised>>
               ELSE Raise(RuntimeError("Failed to navigate to generals list"))
    /\ signals' = signals \o Callback(Interrupted) \o (IF pc' = "ended" THEN WorkerEnd(raised') ELSE <<>>)
    /\ UNCHANGED <<stopFlag, stopReq, env, filt, flags, setTaps, resetTaps, resetCalled, faults, count, loop, returned, run>>

ToggleTaps(log) == SelectSeq(log, LAMBDA p : p \in {PresetOf[x] : x \in Filters})

\* progress 10, then set_generals_list_state
SetListState ==
    /\ pc = "setstate"
    /\ IF Interrupted
       THEN Raise(StopRequested) /\ UNCHANGED <<filt, flags, devlog, setTaps, faults, percents>>
       ELSE \E shotOk \in BOOLEAN, cmpFail \in SUBSET Filters :
              /\ percents' = Append(percents, Pct(10))
              /\ faults + (IF shotOk THEN 0 ELSE 1) + Cardinality(cmpFail) <= MaxFaults
              /\ ~(TapOk("All", missing) /\ shotOk) => cmpFail = {}
              /\ ~TapOk("All", missing) => shotOk
              /\ LET r == SetGeneralsListState(filt, missing, shotOk, cmpFail)
                 IN  /\ filt' = r.filt
                     /\ flags' = r.flags
                     /\ devlog' = devlog \o r.log
                     /\ setTaps' = ToggleTaps(r.log)
                     /\ faults' = faults + (IF shotOk THEN 0 ELSE 1) + Cardinality(cmpFail)
                     /\ IF r.go
                        THEN pc' = "count" /\ UNCHANGED <<terminal, connected, raised>>
                        ELSE Raise(RuntimeError("Failed to set generals list state"))
    /\ signals' = signals \o Callback(Interrupted) \o (IF pc' = "ended" THEN WorkerEnd(raised') ELSE <<>>)
    /\ UNCHANGED <<stopFlag, stopReq, env, resetTaps, resetCalled, count, loop, returned, run>>

\* progress 15, get_total_generals_count, the check for zero entities and
\* the creation of the initial workbook
ReadCount ==
    /\ pc = "count"
    /\ IF Interrupted
       THEN Raise(StopRequested) /\ UNCHANGED <<devlog, faults, count, percents>>
       ELSE \E shotOk \in BOOLEAN, some \in BOOLEAN, text \in RunCounterTexts, created \in BOOLEAN :
              /\ percents' = Append(percents, Pct(15))
              /\ ~shotOk => ~some
              /\ ~some => text = <<"a">>
              /\ LET r == GetTotalGeneralsCount(shotOk, [some |-> some, text |-> text])
                     cost == (IF some THEN 0 ELSE 1) + (IF created \/ NoGeneralsFound(r.n) THEN 0 ELSE 1)
                 IN  /\ faults + cost <= MaxFaults
                     /\ NoGeneralsFound(r.n) => ~created
                     /\ faults' = faults + cost
                     /\ devlog' = Append(devlog, "screenshot")
                     /\ ocrCount' = [read |-> TRUE, shot |-> shotOk, some |-> some, text |-> IF some THEN text ELSE <<>>]
                     /\ total_generals' = r.n
                     /\ count_text' = r.text
                     /\ excelOk' = created
                     /\ IF NoGeneralsFound(r.n)
                        THEN Raise(RuntimeError("No generals found"))
                        ELSE pc' = (IF 0 < r.n THEN "looptop" ELSE "cleanup") /\ UNCHANGED <<terminal, connected, raised>>
    /\ signals' = signals \o Callback(Interrupted) \o (IF pc' = "ended" THEN WorkerEnd(raised') ELSE <<>>)
    /\ UNCHANGED <<stopFlag, stopReq, env, filt, flags, setTaps, resetTaps, resetCalled, loop, returned, run>>

(***************************************************************************)
(* The entity loop                                                         *)
(***************************************************************************)
\* top of the loop body: progress_callback({}) polls the stop flag
LoopTop ==
    /\ pc = "looptop"
    /\ IF Interrupted
       THEN Raise(StopRequested)
       ELSE pc' = "open" /\ UNCHANGED <<terminal, connected, raised>>
    /\ signals' = signals \o Callback(Interrupted) \o (IF pc' = "ended" THEN WorkerEnd(raised') ELSE <<>>)
    /\ UNCHANGED <<stopFlag, stopReq, percents, env, nav, faults, count, loop, returned, run>>

OpenPreset(idx) == IF idx = 1 THEN "GeneralsFirstGeneral" ELSE "GeneralsListMoveRight"

\* _collect_single_general: open_general_details, the main screenshot and
\* _extract_main_general_data
OpenGeneral ==
    /\ pc = "open"
    /\ LET idx == i + 1
           fresh == NewGeneral(idx, Len(devlog))
       IN  IF ~TapOk(OpenPreset(idx), missing)
           THEN /\ general' = FailedOpen(fresh)
                /\ pc' = "post"
                /\ UNCHANGED <<devlog, faults>>
           ELSE \E shotOk \in BOOLEAN :
                  /\ devlog' = devlog \o <<OpenPreset(idx), "screenshot">>
                  /\ IF ~shotOk
                     THEN /\ faults + 1 <= MaxFaults
                          /\ faults' = faults + 1
                          /\ general' = [fresh EXCEPT !.is_uncertain = TRUE]
                          /\ pc' = "post"
                     ELSE \E ill \in SUBSET {"name", "power", "exp_ratio"} :
                            /\ faults + Cardinality(ill) <= MaxFaults
                            /\ faults' = faults + Cardinality(ill)
                            /\ general' = ExtractMain(fresh, ill, quality)
                            /\ pc' = "cult"
    /\ UNCHANGED <<stopFlag, stopReq, percents, terminal, connected, raised, env, filt, flags, setTaps, resetTaps, resetCalled, count, i, generals, lastSnapshot, events, sheet, signals, returned, run>>

\* the cultivation block: navigate, screenshot, extract, Back
VisitCultivation ==
    /\ pc = "cult"
    /\ pc' = "spec"
    /\ IF ~TapOk("GeneralsListCultivate", missing)
       THEN general' = Visited(general, "cultivation", "navfail") /\ UNCHANGED <<devlog, faults>>
       ELSE \E shotOk \in BOOLEAN :
              /\ devlog' = devlog \o <<"GeneralsListCultivate", "screenshot">> \o TapLog("Back", missing)
              /\ IF ~shotOk
                 THEN /\ faults + 1 <= MaxFaults
                      /\ faults' = faults + 1
                      /\ general' = Visited(general, "cultivation", "noshot")
                 ELSE \E purple \in BOOLEAN, ill \in SUBSET (1..4) :
                        /\ faults + Cardinality(ill) <= MaxFaults
                        /\ faults' = faults + Cardinality(ill)
                        /\ general' = ExtractCultivation(general, purple, ill, quality)
    /\ UNCHANGED <<stopFlag, stopReq, percents, terminal, connected, raised, env, filt, flags, setTaps, resetTaps, resetCalled, count, i, generals, lastSnapshot, events, sheet, signals, returned, run>>

\* the specialty block; reading the variant flag of a record whose
\* cultivation screen was not read raises, and the entity is returned as is
VisitSpecialty ==
    /\ pc = "spec"
    /\ IF ~TapOk("GeneralsListSpecialty", missing)
       THEN pc' = "cov" /\ general' = Visited(general, "specialty", "navfail") /\ UNCHANGED <<devlog, faults>>
       ELSE \E shotOk \in BOOLEAN :
              IF ~shotOk
              THEN /\ faults + 1 <= MaxFaults
                   /\ faults' = faults + 1
                   /\ devlog' = devlog \o <<"GeneralsListSpecialty", "screenshot">> \o TapLog("Back", missing)
                   /\ pc' = "cov"
                   /\ general' = Visited(general, "specialty", "noshot")
              ELSE IF general.is_purple_general = "unset"
              THEN /\ devlog' = devlog \o <<"GeneralsListSpecialty", "screenshot">>
                   /\ general' = RaisedInEntity(general, "specialty")
                   /\ pc' = "post"
                   /\ UNCHANGED faults
              ELSE LET presets == SpecialtyPresets(general.is_purple_general = "yes")
                   IN  \E o \in [1..Len(presets) -> SlotOutcomes] :
                         /\ \A k \in 1..Len(presets) : ~TapOk(presets[k], missing) => o[k] = "ok"
                         /\ faults + SlotFaults(o) <= MaxFaults
                         /\ faults' = faults + SlotFaults(o)
                         /\ devlog' = devlog \o <<"GeneralsListSpecialty", "screenshot">> \o SpecialtyLog(presets, missing) \o TapLog("Back", missing)
                         /\ general' = ExtractSpecialty(general, o, quality, missing)
                         /\ pc' = "cov"
    /\ UNCHANGED <<stopFlag, stopReq, percents, terminal, connected, raised, env, filt, flags, setTaps, resetTaps, resetCalled, count, i, generals, lastSnapshot, events, sheet, signals, returned, run>>

\* faulty variant: an inactive button is tapped before the transition gives up
NavigateToCovenantTapsAnyway(shotOk, match, miss) ==
    IF ~shotOk THEN [go |-> FALSE, log |-> <<"screenshot">>]
    ELSE IF match /\ "GeneralsListCovenant" \notin miss THEN [go |-> FALSE, log |-> <<"screenshot", "GeneralsListCovenant">>]
    ELSE [go |-> TapOk("GeneralsListCovenant", miss), log |-> <<"screenshot">> \o TapLog("GeneralsListCovenant", miss)]

\* navigate_to_covenant_screen: [go = return value, log]; match = the
\* button region matched the inactive reference image
NavigateToCovenant(shotOk, match, miss) ==
    IF ~shotOk THEN [go |-> FALSE, log |-> <<"screenshot">>]
    ELSE IF match /\ "GeneralsListCovenant" \notin miss THEN [go |-> FALSE, log |-> <<"screenshot">>]
    ELSE [go |-> TapOk("GeneralsListCovenant", miss), log |-> <<"screenshot">> \o TapLog("GeneralsListCovenant", miss)]

\* the covenant block
VisitCovenant ==
    /\ pc = "cov"
    /\ \E navShot \in BOOLEAN, match \in BOOLEAN :
         LET n == NavigateToCovenant(navShot, match, missing)
         IN  /\ ~navShot => ~match
             /\ IF ~n.go
                THEN /\ faults + (IF navShot THEN 0 ELSE 1) <= MaxFaults
                     /\ faults' = faults + (IF navShot THEN 0 ELSE 1)
                     /\ devlog' = devlog \o n.log
                     /\ pc' = "classify"
                     /\ general' = Visited(general, "covenant", IF navShot /\ match /\ "GeneralsListCovenant" \notin missing THEN "unavailable" ELSE "navfail")
                ELSE \E shotOk \in BOOLEAN :
                       IF ~shotOk
                       THEN /\ faults + 1 <= MaxFaults
                            /\ faults' = faults + 1
                            /\ devlog' = devlog \o n.log \o <<"screenshot">> \o TapLog("Back", missing)
                            /\ pc' = "classify"
                            /\ general' = Visited(general, "covenant", "noshot")
                       ELSE IF ~TapOk("GeneralsListCovenantGeneral", missing)
                       THEN /\ devlog' = devlog \o n.log \o <<"screenshot">> \o TapLog("Back", missing)
                            /\ general' = [general EXCEPT !.sub["covenant"] = "nodata", !.covenant_data = "No Covenant Data", !.confidence_scores["covenant"] = 0]
                            /\ pc' = "classify"
                            /\ UNCHANGED faults
                       ELSE \E o \in [1..CovenantSlots -> SlotOutcomes] :
                              /\ \A k \in 1..CovenantSlots : (CovenantCrash(o) # 0 /\ k > CovenantCrash(o)) => o[k] = "ok"
                              /\ faults + SlotFaults(o) <= MaxFaults
                              /\ faults' = faults + SlotFaults(o)
                              /\ IF CovenantCrash(o) # 0
                                 THEN /\ devlog' = devlog \o n.log \o <<"screenshot", "GeneralsListCovenantGeneral">> \o CovenantLog(CovenantCrash(o), missing)
                                      /\ general' = RaisedInEntity(general, "covenant")
                                      /\ pc' = "post"
                                 ELSE /\ devlog' = devlog \o n.log \o <<"screenshot", "GeneralsListCovenantGeneral">> \o CovenantLog(CovenantSlots, missing) \o TapLog("GeneralsListCovenantXOut", missing) \o TapLog("Back", missing)
                                      /\ general' = ExtractCovenant(general, o, quality)
                                      /\ pc' = "classify"
    /\ UNCHANGED <<stopFlag, stopReq, percents, terminal, connected, raised, env, filt, flags, setTaps, resetTaps, resetCalled, count, i, generals, lastSnapshot, events, sheet, signals, returned, run>>

\* the end of _collect_single_general's try block
ClassifyGeneral ==
    /\ pc = "classify"
    /\ general' = Classify(general)
    /\ pc' = "post"
    /\ UNCHANGED <<stopFlag, stopReq, percents, terminal, connected, raised, env, nav, faults, count, i, generals, lastSnapshot, events, sheet, signals, returned, run>>

\* back in the loop: append the record, write its row, send the progress
\* event with a copy of the list
PostEntity ==
    /\ pc = "post"
    /\ generals' = Append(generals, [general EXCEPT !.logEnd = Len(devlog)])
    /\ general' = NoGeneral
    /\ IF excelOk
       THEN \E saved \in BOOLEAN :
              /\ faults + (IF saved THEN 0 ELSE 1) <= MaxFaults
              /\ faults' = faults + (IF saved THEN 0 ELSE 1)
              /\ sheet' = Append(sheet, AppendGeneral(general, i + FirstDataRow, saved, Len(devlog)))
       ELSE UNCHANGED <<sheet, faults>>
    /\ events' = Append(events, ProgressEvent(i + 1, total_generals, generals'))
    /\ IF Interrupted
       THEN Raise(StopRequested) /\ UNCHANGED <<lastSnapshot, i, percents>>
       ELSE /\ lastSnapshot' = generals'
            /\ percents' = Append(percents, LoopPercentage(i + 1, total_generals))
            /\ i' = i + 1
            /\ pc' = IF i + 1 < total_generals THEN "looptop" ELSE "cleanup"
            /\ UNCHANGED <<terminal, connected, raised>>
    /\ signals' = signals \o Callback(Interrupted) \o (IF pc' = "ended" THEN WorkerEnd(raised') ELSE <<>>)
    /\ UNCHANGED <<stopFlag, stopReq, env, nav, count, returned, run>>

\* progress 98, then reset_generals_list_state
Cleanup ==
    /\ pc = "cleanup"
    /\ IF Interrupted
       THEN Raise(StopRequested) /\ UNCHANGED <<filt, devlog, resetTaps, resetCalled, percents>>
       ELSE LET r == ResetGeneralsListState(flags, filt, missing)
            IN  /\ percents' = Append(percents, Pct(98))
                /\ filt' = r.filt
                /\ devlog' = devlog \o r.log
                /\ resetTaps' = r.log
                /\ resetCalled' = TRUE
                /\ pc' = "final"
                /\ UNCHANGED <<terminal, connected, raised>>
    /\ signals' = signals \o Callback(Interrupted) \o (IF pc' = "ended" THEN WorkerEnd(raised') ELSE <<>>)
    /\ UNCHANGED <<stopFlag, stopReq, env, flags, setTaps, faults, count, loop, returned, run>>

\* progress 100, the return, the finally block and the worker's signal;
\* emitting collection_finished with excel_path None is the library's call
Final ==
    /\ pc = "final"
    /\ IF Interrupted
       THEN Raise(StopRequested) /\ UNCHANGED <<returned, percents>>
       ELSE /\ percents' = Append(percents, Pct(100))
            /\ returned' = TRUE
            /\ connected' = FALSE
            /\ pc' = "ended"
            /\ \E emitted \in (IF excelOk THEN {TRUE} ELSE BOOLEAN) :
                 /\ raised' = (IF emitted THEN NoException ELSE EmitTypeError)
                 /\ terminal' = (IF emitted THEN "finished" ELSE ErrorStatus(WorkerMessage(EmitTypeError)))
    /\ signals' = signals \o Callback(Interrupted) \o (IF pc' = "ended" THEN WorkerEnd(raised') ELSE <<>>)
    /\ UNCHANGED <<stopFlag, stopReq, env, nav, faults, count, loop, run>>

Next ==
    \/ Stop
    \/ StartCollection
    \/ NavigateToList
    \/ SetListState
    \/ ReadCount
    \/ LoopTop
    \/ OpenGeneral
    \/ VisitCultivation
    \/ VisitSpecialty
    \/ VisitCovenant
    \/ ClassifyGeneral
    \/ PostEntity
    \/ Cleanup
    \/ Final

Spec == Init /\ [][Next]_vars

(***************************************************************************)
(* The navigator's pair set_generals_list_state / reset_generals_list_state *)
(* on its own: every initial filter state, every comparison outcome        *)
(***************************************************************************)
InitNav ==
    /\ pc = "nav_set"
    /\ stopFlag = FALSE
    /\ terminal = "none"
    /\ connected = TRUE
    /\ missing \in MissingChoices
    /\ filt \in FilterStates
    /\ orig = filt
    /\ flags \in [Filters -> BOOLEAN]
    /\ devlog = <<>>
    /\ setTaps = <<>>
    /\ resetTaps = <<>>
    /\ resetCalled = FALSE
    /\ faults = 0
    /\ ocrCount = NoOcr
    /\ total_generals = 0
    /\ count_text = <<>>
    /\ excelOk = FALSE
    /\ i = 0
    /\ quality = One
    /\ general = NoGeneral
    /\ generals = <<>>
    /\ lastSnapshot = <<>>
    /\ returned = FALSE
    /\ raised = NoException
    /\ percents = <<>>
    /\ events = <<>>
    /\ sheet = <<>>
    /\ signals = <<>>
    /\ run = 1
    /\ stopReq = NoStop
    /\ call = NoCall
    /\ retry_count = NavigationRetryCount

\* set_generals_list_state()
NavSet ==
    /\ pc = "nav_set"
    /\ \E shotOk \in BOOLEAN, cmpFail \in SUBSET Filters :
         LET r == SetGeneralsListState(filt, missing, shotOk, cmpFail)
         IN  /\ filt' = r.filt
             /\ flags' = r.flags
             /\ devlog' = devlog \o r.log
             /\ setTaps' = ToggleTaps(r.log)
    /\ pc' = "nav_reset"
    /\ UNCHANGED <<stopFlag, stopReq, percents, signals, run, terminal, connected, raised, env, resetTaps, resetCalled, faults, count, loop, returned>>

\* reset_generals_list_state()
NavReset ==
    /\ pc = "nav_reset"
    /\ LET r == ResetGeneralsListState(flags, filt, missing)
       IN  /\ filt' = r.filt
           /\ devlog' = devlog \o r.log
           /\ resetTaps' = r.log
    /\ resetCalled' = TRUE
    /\ pc' = "nav_done"
    /\ UNCHANGED <<stopFlag, stopReq, percents, signals, run, terminal, connected, raised, env, flags, setTaps, faults, count, loop, returned>>

NextNav ==
    \/ NavSet
    \/ NavReset

SpecNav == InitNav /\ [][NextNav]_vars

(***************************************************************************)
(* get_total_generals_count on every counter text up to MaxLen characters  *)
(***************************************************************************)
InitCount ==
    /\ pc = "parse"
    /\ stopFlag = FALSE
    /\ terminal = "none"
    /\ connected = TRUE
    /\ missing = {}
    /\ filt = [x \in Filters |-> FALSE]
    /\ orig = filt
    /\ flags = NoFlags
    /\ devlog = <<>>
    /\ setTaps = <<>>
    /\ resetTaps = <<>>
    /\ resetCalled = FALSE
    /\ faults = 0
    /\ ocrCount \in {[read |-> TRUE, shot |-> FALSE, some |-> FALSE, text |-> <<>>], [read |-> TRUE, shot |-> TRUE, some |-> FALSE, text |-> <<>>]} \cup {[read |-> TRUE, shot |-> TRUE, some |-> TRUE, text |-> t] : t \in Texts}
    /\ total_generals = 0
    /\ count_text = <<>>
    /\ excelOk = FALSE
    /\ i = 0
    /\ quality = One
    /\ general = NoGeneral
    /\ generals = <<>>
    /\ lastSnapshot = <<>>
    /\ returned = FALSE
    /\ raised = NoException
    /\ percents = <<>>
    /\ events = <<>>
    /\ sheet = <<>>
    /\ signals = <<>>
    /\ run = 1
    /\ stopReq = NoStop
    /\ call = NoCall
    /\ retry_count = NavigationRetryCount

\* get_total_generals_count()
ParseCount ==
    /\ pc = "parse"
    /\ LET r == GetTotalGeneralsCount(ocrCount.shot, ocrCount)
       IN  /\ total_generals' = r.n
           /\ count_text' = r.text
    /\ devlog' = Append(devlog, "screenshot")
    /\ pc' = "parsed"
    /\ UNCHANGED <<stopFlag, stopReq, percents, signals, run, terminal, connected, raised, env, filt, flags, setTaps, resetTaps, resetCalled, faults, ocrCount, excelOk, loop, returned>>

NextCount == ParseCount

SpecCount == InitCount /\ [][NextCount]_vars

(***************************************************************************)
(* OCREngine: the extraction calls on their own                            *)
(***************************************************************************)
\* extraction returned None
NoResult == [some |-> FALSE]

\* regions named in 'character_enhanced_regions'
CharacterEnhancedRegions == {"GeneralsListExp", "GeneralsListName", "GeneralsListLevel", "GeneralsListPower", "GeneralsListPower1", "GeneralsListPower2", "GeneralsListExp1", "GeneralsListExp2"}

\* region arguments: a character-enhanced and a plain region name, each
\* present in or missing from the region table self.regions
RegionArgs == [name : {"GeneralsListName", "GeneralsListCount"}, known : BOOLEAN]

\* confidences the reader attaches to a fragment (0.25 .. 1.0)
FragLevels == {30, 36, 42, 48, 72, 96, 120}

Min(a, b) == IF a < b THEN a ELSE b

\* the fragment threshold of extract_text's easyocr branch
ThresholdFor(name, pre) ==
    LET threshold == IF pre THEN PostprocessedThreshold ELSE ConfidenceThreshold
    IN  IF name \in CharacterEnhancedRegions THEN Min(threshold, CharacterThreshold) ELSE threshold

\* ' '.join(text_parts)
RECURSIVE JoinSpace(_)
JoinSpace(parts) ==
    IF parts = <<>> THEN <<>>
    ELSE IF Len(parts) = 1 THEN parts[1].text
    ELSE parts[1].text \o <<" ">> \o JoinSpace(Tail(parts))

RECURSIVE SumConf(_)
SumConf(parts) == IF parts = <<>> THEN 0 ELSE parts[1].conf + SumConf(Tail(parts))

\* what the image handed to the reader shows: the cropped region when the
\* name is in the table, the whole screenshot otherwise
ImageRead(region) == IF region.known THEN "region" ELSE "screenshot"

\* extract_text (easyocr): c.valid = the bytes open as an image, c.frags =
\* the reader's (text, confidence) results on the image it was given
ExtractText(c) ==
    IF ~c.valid THEN NoResult
    ELSE IF c.frags = <<>> THEN NoResult
    ELSE LET threshold == ThresholdFor(c.region.name, c.pre)
             text_parts == SelectSeq(c.frags, LAMBDA f : f.conf >= threshold)
         IN  IF text_parts = <<>> THEN NoResult
             ELSE [some |-> TRUE, text |-> JoinSpace(text_parts), confidence |-> SumConf(text_parts) \div Len(text_parts), from |-> ImageRead(c.region)]

\* the end of the greedy \d+ that starts at p: first index after the digits
RECURSIVE DigitsEnd(_, _)
DigitsEnd(s, p) == IF p <= Len(s) /\ IsDigit(s[p]) THEN DigitsEnd(s, p + 1) ELSE p

\* (?:,\d{3})* from index p on: first index after the groups taken
RECURSIVE GroupsEnd(_, _)
GroupsEnd(s, p) ==
    IF p + 3 <= Len(s) /\ s[p] = "," /\ IsDigit(s[p + 1]) /\ IsDigit(s[p + 2]) /\ IsDigit(s[p + 3])
    THEN GroupsEnd(s, p + 4)
    ELSE p

\* re.findall(r'\d+(?:,\d{3})*', s) from index p on
RECURSIVE FindNumbers(_, _)
FindNumbers(s, p) ==
    IF p > Len(s) THEN <<>>
    ELSE IF ~IsDigit(s[p]) THEN FindNumbers(s, p + 1)
    ELSE LET e == GroupsEnd(s, DigitsEnd(s, p))
         IN  <<SubSeq(s, p, e - 1)>> \o FindNumbers(s, e)

\* int(match.replace(',', ''))
CleanNumber(match) == DecimalValue(SelectSeq(match, LAMBDA ch : ch # ","))

MaxOf(S) == CHOOSE x \in S : \A y \in S : y <= x

\* extract_number: the largest of the matches, confidence * 0.95
ExtractNumber(c) ==
    LET text_result == ExtractText(c)
    IN  IF ~text_result.some THEN NoResult
        ELSE LET matches == FindNumbers(text_result.text, 1)
             IN  IF matches = <<>> THEN NoResult
                 ELSE [some |-> TRUE, value |-> MaxOf({CleanNumber(matches[k]) : k \in 1..Len(matches)}), confidence |-> (text_result.confidence * 95) \div 100, from |-> text_result.from]

\* extract_image: the PNG bytes of the crop, or of the whole screenshot
ExtractImage(c) == IF ~c.valid THEN NoResult ELSE [some |-> TRUE, from |-> ImageRead(c.region)]

\* check_pixel_color: c.a = the pixel lies inside the image, c.b = its
\* colour is within the tolerance
CheckPixelColor(c) == c.valid /\ c.region.known /\ c.a /\ c.b

\* check_template_match: c.a = the template file opens, c.b = the
\* correlation of the extracted image with the template reaches the threshold
CheckTemplateMatch(c) == ExtractImage(c).some /\ c.a /\ c.b

\* characters of the texts handed to the number extraction
NumAlphabet == {"1", "9", ",", " "}

NumTexts == UNION {[1..n -> NumAlphabet] : n \in 0..MaxNumLen}

\* fragment lists of the extract_text calls studied
FragLists == UNION {[1..n -> [text : {<<"1">>}, conf : FragLevels]] : n \in 0..MaxFragments}

\* a call: fn, the arguments and the environment's answers, then the result
OcrCall(fn, valid, region, pre, frags, a, b) == [fn |-> fn, valid |-> valid, region |-> region, pre |-> pre, frags |-> frags, a |-> a, b |-> b, done |-> FALSE, result |-> NoResult, threshold |-> 0]

OcrCalls ==
    {OcrCall("extract_text", v, r, p, f, TRUE, TRUE) : v \in BOOLEAN, r \in RegionArgs, p \in BOOLEAN, f \in FragLists}
    \cup {OcrCall("extract_number", TRUE, r, TRUE, <<[text |-> t, conf |-> q]>>, TRUE, TRUE) : r \in RegionArgs, t \in NumTexts, q \in ConfLevels}
    \cup {OcrCall("extract_number", v, r, TRUE, <<>>, TRUE, TRUE) : v \in BOOLEAN, r \in RegionArgs}
    \cup {OcrCall("extract_image", v, r, TRUE, <<>>, TRUE, TRUE) : v \in BOOLEAN, r \in RegionArgs}
    \cup {OcrCall("check_pixel_color", v, r, TRUE, <<>>, a, b) : v \in BOOLEAN, r \in RegionArgs, a \in BOOLEAN, b \in BOOLEAN}
    \cup {OcrCall("check_template_match", v, r, TRUE, <<>>, a, b) : v \in BOOLEAN, r \in RegionArgs, a \in BOOLEAN, b \in BOOLEAN}

InitOcr ==
    /\ pc = "ocr_call"
    /\ stopFlag = FALSE
    /\ terminal = "none"
    /\ connected = TRUE
    /\ missing = {}
    /\ filt = [x \in Filters |-> FALSE]
    /\ orig = filt
    /\ flags = NoFlags
    /\ devlog = <<>>
    /\ setTaps = <<>>
    /\ resetTaps = <<>>
    /\ resetCalled = FALSE
    /\ faults = 0
    /\ ocrCount = NoOcr
    /\ total_generals = 0
    /\ count_text = <<>>
    /\ excelOk = FALSE
    /\ i = 0
    /\ quality = One
    /\ general = NoGeneral
    /\ generals = <<>>
    /\ lastSnapshot = <<>>
    /\ returned = FALSE
    /\ raised = NoException
    /\ percents = <<>>
    /\ events = <<>>
    /\ sheet = <<>>
    /\ signals = <<>>
    /\ run = 1
    /\ stopReq = NoStop
    /\ call \in OcrCalls
    /\ retry_count = NavigationRetryCount

\* the variables no extraction or composition call touches
outside == <<stopFlag, stopReq, terminal, connected, raised, percents, signals, run, missing, orig, quality, nav, faults, count, loop, returned, retry_count>>

Returns(fn, result) ==
    /\ pc = "ocr_call"
    /\ call.fn = fn
    /\ call' = [call EXCEPT !.done = TRUE, !.result = result, !.threshold = ThresholdFor(call.region.name, call.pre)]
    /\ pc' = "ocr_done"
    /\ UNCHANGED outside

ExtractTextCall == Returns("extract_text", ExtractText(call))

ExtractNumberCall == Returns("extract_number", ExtractNumber(call))

ExtractImageCall == Returns("extract_image", ExtractImage(call))

CheckPixelColorCall == Returns("check_pixel_color", CheckPixelColor(call))

CheckTemplateMatchCall == Returns("check_template_match", CheckTemplateMatch(call))

NextOcr ==
    \/ ExtractTextCall
    \/ ExtractNumberCall
    \/ ExtractImageCall
    \/ CheckPixelColorCall
    \/ CheckTemplateMatchCall

SpecOcr == InitOcr /\ [][NextOcr]_vars

(***************************************************************************)
(* ExcelExporter.combine_images_side_by_side on its own                    *)
(***************************************************************************)
\* b""
EmptyBytes == [kind |-> "empty"]

\* bytes that PILImage.open rejects
GarbageBytes == [kind |-> "garbage"]

\* the PNG bytes of an image: its size and, for a composed image, the
\* pasted parts (x offset, size and index in the list of opened images)
Png(w, h, parts) == [kind |-> "png", width |-> w, height |-> h, parts |-> parts]

Widths == {1, 2, 17}

Heights == {1, 7, 21}

ImageBytes == {EmptyBytes, GarbageBytes} \cup {Png(w, h, <<>>) : w \in Widths, h \in Heights}

ImageLists == UNION {[1..n -> ImageBytes] : n \in 0..MaxImages}

\* sizes (width, height, max_height) whose double product
\* max_height * (width / height) lies just below the integer it stands for,
\* so that int() yields one less: 21 * (17 / 7) = 50.99999999999999
TruncatedShort == {<<17, 7, 21>>}

\* faulty variant: the width is kept although the height changes
NewWidthUnscaled(w, h, max_height) == w

\* new_width = int(max_height * (img.width / img.height))
NewWidth(w, h, max_height) ==
    IF <<w, h, max_height>> \in TruncatedShort THEN (max_height * w) \div h - 1 ELSE (max_height * w) \div h

\* the resize loop: images of max_height are kept, the others resized
Resized(img, max_height) ==
    IF img.height # max_height THEN [width |-> NewWidth(img.width, img.height, max_height), height |-> max_height]
    ELSE [width |-> img.width, height |-> img.height]

\* the paste loop from index k on, current_x being the next free column
RECURSIVE Paste(_, _, _)
Paste(resized_images, k, current_x) ==
    IF k > Len(resized_images) THEN <<>>
    ELSE <<[x |-> current_x, width |-> resized_images[k].width, height |-> resized_images[k].height, src |-> k]>>
         \o Paste(resized_images, k + 1, current_x + resized_images[k].width)

RECURSIVE SumWidths(_)
SumWidths(imgs) == IF imgs = <<>> THEN 0 ELSE imgs[1].width + SumWidths(Tail(imgs))

CombineImagesSideBySide(image_bytes_list) ==
    IF image_bytes_list = <<>> THEN EmptyBytes
    ELSE IF Len(image_bytes_list) = 1 THEN image_bytes_list[1]
    ELSE LET nonempty == SelectSeq(image_bytes_list, LAMBDA b : b # EmptyBytes)
         IN  IF \E k \in 1..Len(nonempty) : nonempty[k] = GarbageBytes THEN EmptyBytes
             ELSE IF nonempty = <<>> THEN EmptyBytes
             ELSE LET max_height == MaxOf({nonempty[k].height : k \in 1..Len(nonempty)})
                      resized_images == [k \in 1..Len(nonempty) |-> Resized(nonempty[k], max_height)]
                  IN  Png(SumWidths(resized_images), max_height, Paste(resized_images, 1, 0))

InitImage ==
    /\ pc = "image_call"
    /\ stopFlag = FALSE
    /\ terminal = "none"
    /\ connected = TRUE
    /\ missing = {}
    /\ filt = [x \in Filters |-> FALSE]
    /\ orig = filt
    /\ flags = NoFlags
    /\ devlog = <<>>
    /\ setTaps = <<>>
    /\ resetTaps = <<>>
    /\ resetCalled = FALSE
    /\ faults = 0
    /\ ocrCount = NoOcr
    /\ total_generals = 0
    /\ count_text = <<>>
    /\ excelOk = FALSE
    /\ i = 0
    /\ quality = One
    /\ general = NoGeneral
    /\ generals = <<>>
    /\ lastSnapshot = <<>>
    /\ returned = FALSE
    /\ raised = NoException
    /\ percents = <<>>
    /\ events = <<>>
    /\ sheet = <<>>
    /\ signals = <<>>
    /\ run = 1
    /\ stopReq = NoStop
    /\ call \in {[fn |-> "combine_images_side_by_side", list |-> l, done |-> FALSE, result |-> EmptyBytes] : l \in ImageLists}
    /\ retry_count = NavigationRetryCount

CombineCall ==
    /\ pc = "image_call"
    /\ call' = [call EXCEPT !.done = TRUE, !.result = CombineImagesSideBySide(call.list)]
    /\ pc' = "image_done"
    /\ UNCHANGED outside

NextImage == CombineCall

SpecImage == InitImage /\ [][NextImage]_vars

(***************************************************************************)
(* _extract_main_general_data: the power field on its own                  *)
(***************************************************************************)
\* the state around a call studied on its own; p is the position
Standalone(p) ==
    /\ pc = p
    /\ stopFlag = FALSE
    /\ terminal = "none"
    /\ connected = TRUE
    /\ missing = {}
    /\ filt = [x \in Filters |-> FALSE]
    /\ orig = filt
    /\ flags = NoFlags
    /\ devlog = <<>>
    /\ setTaps = <<>>
    /\ resetTaps = <<>>
    /\ resetCalled = FALSE
    /\ faults = 0
    /\ ocrCount = NoOcr
    /\ total_generals = 0
    /\ count_text = <<>>
    /\ excelOk = FALSE
    /\ i = 0
    /\ quality = One
    /\ general = NoGeneral
    /\ generals = <<>>
    /\ lastSnapshot = <<>>
    /\ returned = FALSE
    /\ raised = NoException
    /\ percents = <<>>
    /\ events = <<>>
    /\ sheet = <<>>
    /\ signals = <<>>
    /\ run = 1
    /\ stopReq = NoStop

\* ord(ch) of the characters a match is made of
CodePoint(ch) == IF ch = "," THEN 44 ELSE 48 + DigitVal(ch)

\* a < b for Python strings: the first differing character decides, a proper
\* prefix is smaller
RECURSIVE StrLess(_, _)
StrLess(a, b) ==
    IF b = <<>> THEN FALSE
    ELSE IF a = <<>> THEN TRUE
    ELSE IF Head(a) # Head(b) THEN CodePoint(Head(a)) < CodePoint(Head(b))
    ELSE StrLess(Tail(a), Tail(b))

\* max(matches) on a list of strings
MaxMatch(matches) ==
    matches[CHOOSE k \in 1..Len(matches) : \A h \in 1..Len(matches) : ~StrLess(matches[k], matches[h])]

\* the power block of _extract_main_general_data: [power, score];
\* power_result is extract_text's result for the power region
ExtractPower(power_result) ==
    IF ~power_result.some THEN [power |-> "None", score |-> 0]
    ELSE IF power_result.text = <<>> THEN [power |-> "None", score |-> power_result.confidence]
    ELSE LET matches == FindNumbers(power_result.text, 1)
         IN  IF matches = <<>> THEN [power |-> "None", score |-> power_result.confidence]
             ELSE [power |-> CleanNumber(MaxMatch(matches)), score |-> power_result.confidence]

PowerResults == {NoResult} \cup {[some |-> TRUE, text |-> t, confidence |-> q] : t \in NumTexts, q \in ConfLevels}

InitPower ==
    /\ Standalone("power_call")
    /\ retry_count = NavigationRetryCount
    /\ call \in {[fn |-> "_extract_main_general_data", power_result |-> r, done |-> FALSE, power |-> "None", score |-> Absent] : r \in PowerResults}

ExtractPowerCall ==
    /\ pc = "power_call"
    /\ LET r == ExtractPower(call.power_result)
       IN  call' = [call EXCEPT !.done = TRUE, !.power = r.power, !.score = r.score]
    /\ pc' = "power_done"
    /\ UNCHANGED outside

NextPower == ExtractPowerCall

SpecPower == InitPower /\ [][NextPower]_vars

(***************************************************************************)
(* GameNavigator: the tapping transitions on their own, under every        *)
(* configured retry count                                                  *)
(***************************************************************************)
\* values of config 'navigation_retry_count'
RetryCounts == {0, 1, 3}

Transitions == {"tap_preset", "navigate_to_generals_list", "open_general_details", "close_general_details", "navigate_to_cultivation_screen", "navigate_to_specialties_screen", "navigate_to_covenant_screen", "navigate_to_next_covenant_general", "close_covenant_subscreen"}

\* the presets a transition taps, in the order of its tap steps; arg is the
\* preset given to tap_preset or the index given to open_general_details
TapSteps(fn, arg) ==
    CASE fn = "tap_preset" -> <<arg>>
      [] fn = "navigate_to_generals_list" -> <<"ThreeDots", "Generals">>
      [] fn = "open_general_details" -> <<OpenPreset(arg)>>
      [] fn = "close_general_details" -> <<"Back">>
      [] fn = "navigate_to_cultivation_screen" -> <<"GeneralsListCultivate">>
      [] fn = "navigate_to_specialties_screen" -> <<"GeneralsListSpecialty">>
      [] fn = "navigate_to_covenant_screen" -> <<"GeneralsListCovenant">>
      [] fn = "navigate_to_next_covenant_general" -> <<"GeneralsListCovenantRight">>
      [] fn = "close_covenant_subscreen" -> <<"GeneralsListCovenantXOut">>

\* 'if not self._tap_preset(p): return False' for each step in turn
RECURSIVE StepsLog(_, _)
StepsLog(steps, miss) ==
    IF steps = <<>> THEN <<>>
    ELSE TapLog(Head(steps), miss) \o (IF TapOk(Head(steps), miss) THEN StepsLog(Tail(steps), miss) ELSE <<>>)

\* the device commands of one call of a transition
TransitionLog(c, miss) ==
    IF c.fn = "navigate_to_covenant_screen" THEN NavigateToCovenant(c.shotOk, c.match, miss).log
    ELSE StepsLog(TapSteps(c.fn, c.arg), miss)

TapCalls ==
    {[fn |-> "tap_preset", arg |-> p, shotOk |-> TRUE, match |-> FALSE, done |-> FALSE] : p \in {"GeneralsListSpecialty2", "GeneralsListCovenantGeneral", "GeneralsListSpecialtyP1"}}
    \cup {[fn |-> "open_general_details", arg |-> n, shotOk |-> TRUE, match |-> FALSE, done |-> FALSE] : n \in 1..(MaxGenerals + 1)}
    \cup {[fn |-> "navigate_to_covenant_screen", arg |-> 0, shotOk |-> a, match |-> a /\ b, done |-> FALSE] : a \in BOOLEAN, b \in BOOLEAN}
    \cup {[fn |-> f, arg |-> 0, shotOk |-> TRUE, match |-> FALSE, done |-> FALSE] : f \in Transitions \ {"tap_preset", "open_general_details", "navigate_to_covenant_screen"}}

InitTap ==
    /\ Standalone("tap_call")
    /\ retry_count \in RetryCounts
    /\ call \in TapCalls

\* one call of a transition; the coordinate table may lack a preset
TransitionCall ==
    /\ pc = "tap_call"
    /\ \E miss \in MissingChoices \cup {{"ThreeDots"}, {"Back"}, {"GeneralsListCovenant"}} :
         /\ missing' = miss
         /\ devlog' = devlog \o TransitionLog(call, miss)
    /\ call' = [call EXCEPT !.done = TRUE]
    /\ pc' = "tap_done"
    /\ UNCHANGED <<stopFlag, stopReq, terminal, connected, raised, percents, signals, run, orig, quality, filt, flags, setTaps, resetTaps, resetCalled, faults, count, loop, returned, retry_count>>

NextTap == TransitionCall

SpecTap == InitTap /\ [][NextTap]_vars

(***************************************************************************)
(* set_generals_list_state called twice in succession, then                *)
(* reset_generals_list_state                                               *)
(***************************************************************************)
InitTwice ==
    /\ pc = "twice_set1"
    /\ stopFlag = FALSE
    /\ terminal = "none"
    /\ connected = TRUE
    /\ missing \in MissingChoices
    /\ filt \in FilterStates
    /\ orig = filt
    /\ flags \in [Filters -> BOOLEAN]
    /\ devlog = <<>>
    /\ setTaps = <<>>
    /\ resetTaps = <<>>
    /\ resetCalled = FALSE
    /\ faults = 0
    /\ ocrCount = NoOcr
    /\ total_generals = 0
    /\ count_text = <<>>
    /\ excelOk = FALSE
    /\ i = 0
    /\ quality = One
    /\ general = NoGeneral
    /\ generals = <<>>
    /\ lastSnapshot = <<>>
    /\ returned = FALSE
    /\ raised = NoException
    /\ percents = <<>>
    /\ events = <<>>
    /\ sheet = <<>>
    /\ signals = <<>>
    /\ run = 1
    /\ stopReq = NoStop
    /\ call = NoCall
    /\ retry_count = NavigationRetryCount

\* set_generals_list_state() at position p; setTaps holds the toggles the
\* latest call tapped
NavSetAt(p, q) ==
    /\ pc = p
    /\ \E shotOk \in BOOLEAN, cmpFail \in SUBSET Filters :
         LET r == SetGeneralsListState(filt, missing, shotOk, cmpFail)
         IN  /\ filt' = r.filt
             /\ flags' = r.flags
             /\ devlog' = devlog \o r.log
             /\ setTaps' = ToggleTaps(r.log)
    /\ pc' = q
    /\ UNCHANGED <<stopFlag, stopReq, percents, signals, run, terminal, connected, raised, env, resetTaps, resetCalled, faults, count, loop, returned>>

NextTwice ==
    \/ NavSetAt("twice_set1", "twice_set2")
    \/ NavSetAt("twice_set2", "nav_reset")
    \/ NavReset

SpecTwice == InitTwice /\ [][NextTwice]_vars

(***************************************************************************)
(* Several collection runs on one controller                               *)
(***************************************************************************)
\* runs started on one controller
MaxRuns == 2

\* one coordinate table, one OCR quality and one filter state to start from
InitRuns ==
    /\ Init
    /\ missing = {}
    /\ quality = One
    /\ filt = [mode |-> FALSE, favorites |-> TRUE, idle |-> TRUE]

\* _on_collection_finished or _on_collection_error re-enabled the start
\* button; _on_start_collection_clicked creates a new CollectionWorker for the
\* same controller, whose adapter the finally block of the run before has
\* disconnected; the histories start again for the new run
Restart ==
    /\ pc = "ended"
    /\ run < MaxRuns
    /\ run' = run + 1
    /\ pc' = "idle"
    /\ stopFlag' = FALSE
    /\ terminal' = "none"
    /\ raised' = NoException
    /\ returned' = FALSE
    /\ orig' = filt
    /\ devlog' = <<>>
    /\ setTaps' = <<>>
    /\ resetTaps' = <<>>
    /\ resetCalled' = FALSE
    /\ faults' = Cardinality(missing)
    /\ ocrCount' = NoOcr
    /\ excelOk' = FALSE
    /\ i' = 0
    /\ general' = NoGeneral
    /\ generals' = <<>>
    /\ lastSnapshot' = <<>>
    /\ percents' = <<>>
    /\ events' = <<>>
    /\ sheet' = <<>>
    /\ signals' = <<>>
    /\ stopReq' = NoStop
    /\ UNCHANGED <<connected, missing, quality, call, retry_count, filt, flags, total_generals, count_text>>

NextRuns ==
    \/ Next
    \/ Restart

SpecRuns == InitRuns /\ [][NextRuns]_vars

(***************************************************************************)
(* Properties                                                              *)
(***************************************************************************)
OpenTaps == {"GeneralsFirstGeneral", "GeneralsListMoveRight"}

\* C1: whenever set_generals_list_state tapped at least one filter toggle,
\* the run ends (completion, failure or cancellation) only after
\* reset_generals_list_state re-tapped those toggles.
C1_FiltersRestoredOnEveryExit == (pc = "ended" /\ setTaps # <<>>) => (resetCalled /\ resetTaps = setTaps)

\* C2: set_generals_list_state followed by reset_generals_list_state leaves
\* each of the three filters in its original on-screen state, each toggle
\* being tapped zero or exactly two times over the pair of calls.
C2_FilterRoundTrip ==
    pc = "nav_done" =>
        /\ filt = orig
        /\ \A x \in Filters : Count(devlog, PresetOf[x]) \in {0, 2}

C2_Witness == pc = "nav_done" /\ Count(devlog, "GeneralsListMode") = 2 /\ Count(devlog, "GeneralsListIdle") = 0 /\ orig["idle"]

\* C3: reset_generals_list_state taps a filter's toggle if and only if this
\* run's set_generals_list_state tapped it, once each, and it taps no other
\* control.
C3_ResetUndoesExactly ==
    resetCalled =>
        /\ \A x \in Filters : Count(resetTaps, PresetOf[x]) = Count(setTaps, PresetOf[x])
        /\ \A k \in 1..Len(resetTaps) : resetTaps[k] \in {PresetOf[x] : x \in Filters}
        /\ \A x \in Filters : Count(resetTaps, PresetOf[x]) <= 1

C3_Witness == resetCalled /\ Len(setTaps) = 2 /\ Len(resetTaps) = 2

\* C4: after a user cancellation every record the run had added to its list
\* is in the last snapshot delivered to the progress sink (a cancelled run
\* returns no result).
C4_CollectedSurviveCancel ==
    (pc = "ended" /\ terminal = "stopped") =>
        \A k \in 1..Len(generals) : k <= Len(lastSnapshot) /\ lastSnapshot[k] = generals[k]

\* C5: for every record returned by _collect_single_general, is_uncertain
\* holds if and only if the average of its confidence map is below the
\* configured threshold.
C5_UncertainIffBelowThreshold ==
    \A k \in 1..Len(generals) :
        generals[k].is_uncertain <=> AverageBelow(generals[k].confidence_scores, ConfidenceThreshold)

\* C6: the average of the confidence map of every collected record lies in
\* [0, 1] (every OCR confidence the model draws lies in [0, 1]).
C6_AverageInUnitInterval == \A k \in 1..Len(generals) : AverageInUnit(generals[k].confidence_scores)

LaterGroups(g) == IF g = "cultivation" THEN {"specialty", "covenant"} ELSE IF g = "specialty" THEN {"covenant"} ELSE {}

HasPlaceholder(r, g) ==
    IF g = "cultivation" THEN r.cultivation_data # <<>>
    ELSE IF g = "specialty" THEN r.specialty_names # <<>>
    ELSE r.covenant_names # <<>> \/ r.covenant_data # ""

\* C8: when the navigation to a sub-screen fails or its screenshot is
\* missing, the record gets a placeholder value and a zero confidence entry
\* for that group, and the remaining sub-screens are still visited.
C8_SubScreensFailSoft ==
    \A k \in 1..Len(generals) : \A g \in Groups :
        generals[k].sub[g] \in {"navfail", "noshot"} =>
            /\ generals[k].confidence_scores[g] = 0
            /\ HasPlaceholder(generals[k], g)
            /\ \A h \in LaterGroups(g) : generals[k].sub[h] # "unvisited"

\* C9: when the counter read yields a count of 0 the run ends with a
\* terminal error; no entity is opened and no record is produced.
C9_ZeroCountIsFatal ==
    (ocrCount.read /\ total_generals <= 0) =>
        /\ pc = "ended"
        /\ terminal = "failed"
        /\ ~returned
        /\ generals = <<>> /\ general = NoGeneral /\ lastSnapshot = <<>>
        /\ \A k \in 1..Len(devlog) : devlog[k] \notin OpenTaps

C9_Witness == ocrCount.read /\ ocrCount.some /\ ocrCount.text = <<"a">> /\ total_generals = 0 /\ terminal = "failed"

\* the text has the form "n/m" with integers n and m
FormNM(t) ==
    /\ Count(t, "/") = 1
    /\ \A k \in 1..2 : IsIntLiteral(Strip(SplitSlash(t)[k]))

\* the part of a text before its first '/'
BeforeSlash(t) == SubSeq(t, 1, (CHOOSE k \in 1..Len(t) : t[k] = "/" /\ \A h \in 1..(k - 1) : t[h] # "/") - 1)

\* C10 (read literally): get_total_generals_count returns (n, t) when the counter
\* text t has the form "n/m" with integers n and m, and (0, t) for every
\* other text (t read as the text without its surrounding whitespace).
C10_CountParsingLiteral ==
    (pc = "parsed" /\ ocrCount.some) =>
        LET t == Strip(ocrCount.text)
        IN  /\ count_text = t
            /\ total_generals = (IF FormNM(t) THEN IntValue(Strip(BeforeSlash(t))) ELSE 0)

\* C10 (as the code parses): with s the counter text without its surrounding
\* whitespace, get_total_generals_count returns (n, s) when s holds exactly
\* one '/' and the part before it is, once stripped, an integer literal n,
\* whatever follows the '/'; it returns (0, s) for every other text and
\* (0, "") when there is no screenshot or no OCR result.
C10_CountParsing ==
    pc = "parsed" =>
        IF ~ocrCount.shot \/ ~ocrCount.some THEN total_generals = 0 /\ count_text = <<>>
        ELSE LET s == Strip(ocrCount.text)
             IN  /\ count_text = s
                 /\ total_generals = (IF Count(s, "/") = 1 /\ IsIntLiteral(Strip(BeforeSlash(s))) THEN IntValue(Strip(BeforeSlash(s))) ELSE 0)

C10_Witness == pc = "parsed" /\ ocrCount.text = <<"7", "/", "a">> /\ total_generals = 7 /\ count_text = <<"7", "/", "a">>

\* C11: for every record whose specialty extraction was entered, the number
\* of specialty slots recorded is 3 when the record is flagged as the
\* reduced (purple) variant and 5 otherwise.
C11_SpecialtySlotCount ==
    \A k \in 1..Len(generals) :
        generals[k].sub["specialty"] \in {"read", "raised"} =>
            Len(generals[k].specialty_names) = (IF generals[k].is_purple_general = "yes" THEN 3 ELSE 5)

\* C15: every way a run ends leaves the adapter disconnected, and a run
\* that has ended issues no further tap or screenshot.
C15_DisconnectedOnEveryExit == [][(pc' = "ended") => (~connected' /\ (pc = "ended" => devlog' = devlog))]_vars

C15_Witness == pc = "ended" /\ ~connected /\ raised = RuntimeError("No generals found") /\ setTaps # <<>>

\* C16: a run ended by the stop request (the callback's KeyboardInterrupt)
\* shows the status "stopped" and never "failed" or "finished"; a run that
\* ends with no stop request, or by any other exception, never shows
\* "stopped".
C16_StopIsNotFailure ==
    /\ raised.kind = "KeyboardInterrupt" => (terminal = "stopped" /\ stopFlag /\ ~returned)
    /\ terminal = "stopped" => (stopFlag /\ raised.kind = "KeyboardInterrupt")
    /\ (pc = "ended" /\ ~stopFlag) => terminal \in {"finished", "failed"}
    /\ (pc = "ended" /\ raised.kind \notin {"none", "KeyboardInterrupt"}) => terminal = "failed"

C16_Witness == pc = "ended" /\ terminal = "stopped" /\ raised = StopRequested /\ Len(generals) = 1

\* C17: the percentages of a run's progress events never decrease: 5, 10,
\* 15 during setup, 15 + (k/N)*80 after the k-th of N entities, which lies
\* in (15, 95] and is 95 exactly when k = N, then 98 and 100.
C17_PercentageMonotone ==
    /\ \A k \in 1..(Len(percents) - 1) : percents[k].n * percents[k + 1].d <= percents[k + 1].n * percents[k].d
    /\ \A k \in 1..Len(percents) :
         LET p == percents[k]
             N == total_generals
         IN  /\ k = 1 => p.n = 5 * p.d
             /\ k = 2 => p.n = 10 * p.d
             /\ k = 3 => p.n = 15 * p.d
             /\ (3 < k /\ k <= 3 + N) =>
                  /\ p.n * N = (15 * N + 80 * (k - 3)) * p.d
                  /\ 15 * p.d < p.n /\ p.n <= 95 * p.d
                  /\ (p.n = 95 * p.d) <=> (k - 3 = N)
             /\ (3 < k /\ k = N + 4) => p.n = 98 * p.d
             /\ (3 < k /\ k = N + 5) => p.n = 100 * p.d
             /\ 3 < k => (1 <= N /\ k <= N + 5)

C17_Witness == total_generals = 2 /\ Len(percents) = 7 /\ percents[4] = LoopPercentage(1, 2) /\ percents[7] = Pct(100)

\* open taps sent after the device log had the given length
OpenTapsAfter(at) == Cardinality({k \in (at + 1)..Len(devlog) : devlog[k] \in OpenTaps})

EntityPcs == {"open", "cult", "spec", "cov", "classify", "post"}

\* C19 (read literally): once a stop is requested no entity is opened: no
\* GeneralsFirstGeneral or GeneralsListMoveRight tap is sent after the
\* request.
C19_NoOpenAfterStop == stopReq.asked => OpenTapsAfter(stopReq.at) = 0

\* C19 (as the code polls): the stop takes effect at the next progress
\* callback. The entity whose loop-top poll preceded the request is still
\* opened and collected to the end, its record is added to the list, and no
\* entity after it is opened.
C19_CooperativeCancel ==
    /\ stopReq.asked => OpenTapsAfter(stopReq.at) <= (IF stopReq.pc = "open" THEN 1 ELSE 0)
    /\ (stopReq.asked /\ stopReq.pc \in EntityPcs) => pc \in EntityPcs \cup {"ended"}
    /\ (stopReq.asked /\ stopReq.pc \in EntityPcs /\ pc = "ended") =>
         /\ terminal = "stopped"
         /\ general = NoGeneral
         /\ Len(generals) = stopReq.i + 1
    /\ (stopReq.asked /\ pc = "ended" /\ stopReq.pc \notin EntityPcs) => Len(generals) = stopReq.i

C19_Witness == pc = "ended" /\ stopReq.asked /\ stopReq.pc = "open" /\ stopReq.i = 1 /\ OpenTapsAfter(stopReq.at) = 1 /\ generals[2].sub["covenant"] = "read"

LegibleCount(names) == Cardinality({k \in 1..Len(names) : names[k] = "text"})

\* C20: the confidence recorded for a group that was read is the mean over
\* the group's sub-fields: the sum of the legible sub-fields' confidences
\* divided by the number of sub-fields visited (4 stats, 3 or 5 specialty
\* slots, 4 covenant slots).
C20_GroupConfidenceIsMean ==
    \A k \in 1..Len(generals) :
        LET r == generals[k]
        IN  /\ r.sub["cultivation"] = "read" => r.confidence_scores["cultivation"] * 4 = LegibleCount(r.cultivation_data) * quality
            /\ r.sub["specialty"] = "read" => r.confidence_scores["specialty"] * Len(r.specialty_names) = LegibleCount(r.specialty_names) * quality
            /\ r.sub["covenant"] = "read" => r.confidence_scores["covenant"] * CovenantSlots = LegibleCount(r.covenant_names) * quality

HasDigit(s) == \E k \in 1..Len(s) : IsDigit(s[k])

\* s[a..b] is a digit run, plain or comma-grouped (digits, then groups of a
\* comma and exactly three digits), with no digit next to it on either side
IsNumberRun(s, a, b) ==
    /\ a <= b
    /\ IsDigit(s[a]) /\ IsDigit(s[b])
    /\ \A j \in a..b : IsDigit(s[j]) \/ s[j] = ","
    /\ \A j \in a..b : s[j] = "," => (j + 3 <= b /\ IsDigit(s[j + 1]) /\ IsDigit(s[j + 2]) /\ IsDigit(s[j + 3]) /\ (j + 3 = b \/ s[j + 4] = ","))
    /\ a = 1 \/ ~IsDigit(s[a - 1])
    /\ b = Len(s) \/ ~IsDigit(s[b + 1])

RunValues(s) == {CleanNumber(SubSeq(s, r[1], r[2])) : r \in {q \in (1..Len(s)) \X (1..Len(s)) : IsNumberRun(s, q[1], q[2])}}

\* C12: for every extracted text with a digit run, extract_number returns
\* the numerically largest run (plain or comma-grouped, separators
\* stripped) with the text confidence times 0.95; with no digit run or no
\* text it returns None.
C12_NumberExtraction ==
    (pc = "ocr_done" /\ call.fn = "extract_number") =>
        LET t == ExtractText(call)
        IN  IF t.some /\ HasDigit(t.text)
            THEN /\ call.result.some
                 /\ call.result.value = MaxOf(RunValues(t.text))
                 /\ call.result.confidence * 100 = t.confidence * 95
            ELSE ~call.result.some

\* C13: an extraction call given a region name that is missing from the
\* region table returns None (False for the two checks) and yields no text
\* or image taken from the uncropped screenshot.
C13_MissingRegionFails ==
    (pc = "ocr_done" /\ ~call.region.known) =>
        IF call.fn \in {"check_pixel_color", "check_template_match"}
        THEN call.result = FALSE
        ELSE ~call.result.some

\* C14: extract_text keeps exactly the fragments at or above a threshold
\* that is at most 0.3 for a character-enhanced region that was
\* preprocessed, the post-processed threshold for another preprocessed
\* region, and the configured confidence_threshold whenever preprocessing
\* is disabled.
C14_FragmentThreshold ==
    (pc = "ocr_done" /\ call.fn = "extract_text" /\ call.valid /\ call.frags # <<>>) =>
        LET char == call.region.name \in CharacterEnhancedRegions
            kept == SelectSeq(call.frags, LAMBDA f : f.conf >= call.threshold)
        IN  /\ (call.pre /\ char) => call.threshold <= CharacterThreshold
            /\ (call.pre /\ ~char) => call.threshold = PostprocessedThreshold
            /\ ~call.pre => call.threshold = ConfidenceThreshold
            /\ call.result.some <=> kept # <<>>
            /\ call.result.some => call.result.text = JoinSpace(kept)

AllImages(l) == \A k \in 1..Len(l) : l[k].kind = "png"

\* a width w2 at height m that is proportional to w at height h, to the pixel
\* below: unchanged when the height is, else within one pixel under m * w / h
Proportional(w, h, m, w2) ==
    /\ h = m => w2 = w
    /\ m * w - h <= w2 * h
    /\ w2 * h <= m * w

\* C18: combine_images_side_by_side returns empty bytes for an empty list
\* and the single entry unchanged for a one-element list; for two or more
\* images the result is as high as the tallest input and as wide as the sum
\* of the inputs' widths after each was scaled proportionally to that
\* height, the images being placed left to right in list order.
C18_ImageComposition ==
    (pc = "image_done") =>
        LET l == call.list
            r == call.result
        IN  /\ l = <<>> => r = EmptyBytes
            /\ Len(l) = 1 => r = l[1]
            /\ (Len(l) >= 2 /\ AllImages(l)) =>
                    /\ r.kind = "png"
                    /\ \A k \in 1..Len(l) : l[k].height <= r.height
                    /\ \E k \in 1..Len(l) : l[k].height = r.height
                    /\ Len(r.parts) = Len(l)
                    /\ \A k \in 1..Len(l) :
                           /\ r.parts[k].src = k
                           /\ r.parts[k].height = r.height
                           /\ Proportional(l[k].width, l[k].height, r.height, r.parts[k].width)
                           /\ r.parts[k].x = (IF k = 1 THEN 0 ELSE r.parts[k - 1].x + r.parts[k - 1].width)
                    /\ r.width = r.parts[Len(l)].x + r.parts[Len(l)].width

C18_Witness ==
    /\ pc = "image_done"
    /\ call.list = <<Png(17, 7, <<>>), Png(1, 21, <<>>), Png(2, 1, <<>>)>>
    /\ call.result.height = 21
    /\ call.result.width = 50 + 1 + 42

\* C21: the power recorded on an entity is the numerically largest digit
\* run (plain or comma-grouped, separators stripped) of the power region's
\* OCR text, for every text with one or more digit runs.
C21_PowerIsLargestRun ==
    (pc = "power_done" /\ call.power_result.some /\ HasDigit(call.power_result.text)) =>
        call.power = MaxOf(RunValues(call.power_result.text))

\* the send_tap commands in a device log
TapsOf(log) == SelectSeq(log, LAMBDA e : e # "screenshot")

\* number of leading tap steps whose preset has coordinates
RECURSIVE Reachable(_, _)
Reachable(steps, miss) ==
    IF steps = <<>> \/ Head(steps) \in miss THEN 0 ELSE 1 + Reachable(Tail(steps), miss)

Segment(r) == SubSeq(devlog, r.logStart + 1, r.logEnd)

CovenantTaps == {"GeneralsListCovenant", "GeneralsListCovenantGeneral", "GeneralsListCovenantRight", "GeneralsListCovenantXOut"}

\* sub-screens of r that were entered and left by the Back tap before the
\* covenant transition
EnteredBefore(r) == {g \in {"cultivation", "specialty"} : r.sub[g] \in {"read", "noshot"}}

\* C23: when the covenant button matches the inactive reference image the
\* covenant transition sends no tap and reports not available; the
\* collector extracts no covenant data and sends no Back tap for it, and
\* the entity is classified without an error.
C23_CovenantSkipped ==
    \A k \in 1..Len(generals) :
        LET r == generals[k]
        IN  r.sub["covenant"] = "unavailable" =>
              /\ \A e \in 1..Len(Segment(r)) : Segment(r)[e] \notin CovenantTaps
              /\ Segment(r)[Len(Segment(r))] = "screenshot"
              /\ Count(Segment(r), "Back") = Cardinality(EnteredBefore(r))
              /\ r.covenant_names = <<>> /\ r.covenant_data = "" /\ r.confidence_scores["covenant"] = Absent
              /\ \A g \in Groups : r.sub[g] # "raised"
              /\ r.is_uncertain <=> AverageBelow(r.confidence_scores, ConfidenceThreshold)

C23_Witness ==
    \E k \in 1..Len(generals) :
        /\ generals[k].sub["covenant"] = "unavailable"
        /\ generals[k].sub["cultivation"] = "read"
        /\ generals[k].sub["specialty"] = "read"
        /\ ~generals[k].is_uncertain

\* The game as the collector assumes it (the comments of
\* _collect_single_general and _extract_covenant_data name the screen each
\* tap leads to): a control acts on the screen that shows it; what a tap does
\* on another screen is not known.
SpecialtySlotTaps == {"GeneralsListSpecialty1", "GeneralsListSpecialty2", "GeneralsListSpecialty3", "GeneralsListSpecialty4", "GeneralsListSpecialty5", "GeneralsListSpecialtyP1", "GeneralsListSpecialtyP2", "GeneralsListSpecialtyP3"}

GameTap(g, cmd) ==
    IF cmd = "screenshot" THEN g
    ELSE IF g.screen = "list" /\ cmd = "GeneralsFirstGeneral" THEN [screen |-> "details", cursor |-> 1]
    ELSE IF g.screen = "details" /\ cmd = "GeneralsListMoveRight" THEN [g EXCEPT !.cursor = g.cursor + 1]
    ELSE IF g.screen = "details" /\ cmd = "GeneralsListCultivate" THEN [g EXCEPT !.screen = "cultivation"]
    ELSE IF g.screen = "details" /\ cmd = "GeneralsListSpecialty" THEN [g EXCEPT !.screen = "specialty"]
    ELSE IF g.screen = "details" /\ cmd = "GeneralsListCovenant" THEN [g EXCEPT !.screen = "covenant"]
    ELSE IF g.screen = "specialty" /\ cmd \in SpecialtySlotTaps THEN g
    ELSE IF g.screen \in {"cultivation", "specialty", "covenant"} /\ cmd = "Back" THEN [g EXCEPT !.screen = "details"]
    ELSE IF g.screen = "covenant" /\ cmd = "GeneralsListCovenantGeneral" THEN [g EXCEPT !.screen = "covenant_general"]
    ELSE IF g.screen = "covenant_general" /\ cmd = "GeneralsListCovenantRight" THEN g
    ELSE IF g.screen = "covenant_general" /\ cmd = "GeneralsListCovenantXOut" THEN [g EXCEPT !.screen = "covenant"]
    ELSE [g EXCEPT !.screen = "unknown"]

RECURSIVE GameAfter(_, _)
GameAfter(g, log) == IF log = <<>> THEN g ELSE GameAfter(GameTap(g, Head(log)), Tail(log))

\* the game after the first n device commands, the entity loop starting on
\* the list screen
GameAt(n) ==
    IF generals = <<>> THEN [screen |-> "list", cursor |-> 0]
    ELSE GameAfter([screen |-> "list", cursor |-> 0], SubSeq(devlog, generals[1].logStart + 1, n))

\* C24: in a run over N entities the collector opens entity 1 with exactly
\* one tap on GeneralsFirstGeneral and each entity i > 1 with exactly one
\* tap on GeneralsListMoveRight, in increasing index order, and the game's
\* cursor shows the i-th entity on the details screen when record i is read.
C24_IndexImplicit ==
    \A k \in 1..Len(generals) :
        LET r == generals[k]
        IN  /\ r.idx = k
            /\ Count(Segment(r), "GeneralsFirstGeneral") = (IF k = 1 THEN 1 ELSE 0)
            /\ Count(Segment(r), "GeneralsListMoveRight") = (IF k = 1 THEN 0 ELSE 1)
            /\ Segment(r)[1] = OpenPreset(k)
            /\ GameAt(r.logStart + 1) = [screen |-> "details", cursor |-> k]

\* C28: every sub-screen entered while an entity is collected is left by
\* its closing tap before the record is returned, on every path, so that
\* the next entity's open tap is sent from the details or the list screen.
C28_SubScreensClosed ==
    \A k \in 1..Len(generals) :
        LET r == generals[k]
        IN  /\ Count(Segment(r), "Back") = Count(Segment(r), "GeneralsListCultivate") + Count(Segment(r), "GeneralsListSpecialty") + Count(Segment(r), "GeneralsListCovenant")
            /\ Count(Segment(r), "GeneralsListCovenantXOut") = Count(Segment(r), "GeneralsListCovenantGeneral")
            /\ ~r.openFailed => GameAfter([screen |-> "details", cursor |-> k], SubSeq(devlog, r.logStart + 2, r.logEnd)).screen = "details"

\* C25: at every entity boundary the collector produces one progress event;
\* the k-th one carries the index k, the total N and a list of exactly the k
\* records collected so far, and a list already handed over keeps showing
\* those k records whatever is appended to the run's list afterwards.
C25_ProgressSnapshots ==
    /\ Len(events) = Len(generals)
    /\ \A k \in 1..Len(events) :
         /\ events[k].current_general = k
         /\ events[k].total_generals = total_generals
         /\ Contents(events[k].generals_data) = SubSeq(generals, 1, k)

\* two boundaries were passed: the first event's list is one record short
\* of the run's list
C25_Witness ==
    /\ Len(events) = 2
    /\ Len(generals) = 2
    /\ Len(Contents(events[1].generals_data)) = 1
    /\ total_generals = 2

\* C26: when the workbook was created, the record of entity i is written to
\* row i + 6 of it, one row per entity, before entity i + 1 is opened, and
\* the row of an append that reported success holds every column group of
\* the record.
C26_RowPerEntity ==
    excelOk =>
        /\ Len(sheet) = Len(generals)
        /\ \A k \in 1..Len(sheet) :
             /\ sheet[k].idx = k
             /\ sheet[k].row = k + 6
             /\ k < Len(generals) => sheet[k].at <= generals[k + 1].logStart
             /\ sheet[k].ok => sheet[k].cells = ColumnGroups

TerminalSignals == {"collection_finished", "error_occurred"}

\* C30: wherever stop() falls between the worker's steps, the worker has
\* emitted no terminal signal while the run is going and exactly one
\* (collection_finished or error_occurred) once it is over, and no
\* progress_updated follows a callback that saw the stop flag set.
C30_OneTerminalSignal ==
    LET ends == {k \in 1..Len(signals) : signals[k] \in TerminalSignals}
        seen == {k \in 1..Len(signals) : signals[k] = "stop_observed"}
    IN  /\ pc \in RunPcs \cup {"idle"} => ends = {}
        /\ pc = "ended" => Cardinality(ends) = 1 /\ Len(signals) \in ends
        /\ \A k \in seen : \A h \in (k + 1)..Len(signals) : signals[h] # "progress_updated"

\* a run stopped in the entity loop: progress was emitted, then the flag
\* was seen and the error signal ended the run
C30_Witness ==
    /\ pc = "ended"
    /\ Count(signals, "stop_observed") = 1
    /\ Count(signals, "progress_updated") >= 4
    /\ Count(signals, "error_occurred") = 1
    /\ Len(generals) >= 1

\* C27: two calls of set_generals_list_state in succession, the second one
\* tapping no toggle, followed by one reset_generals_list_state leave the
\* three filters in their original on-screen state.
C27_SetTwiceThenReset == (pc = "nav_done" /\ setTaps = <<>>) => filt = orig

\* C29: in every run of a sequence of runs on one controller, the taps and
\* screenshots of the run are issued while the device adapter is connected.
C29_CommandsWhileConnected == (pc \in RunPcs /\ devlog # <<>>) => connected

====
